---- MODULE Spec2Model ----
(***************************************************************************)
(* Model of gen-font-subset-from-text: build_minimal_font (font_gen.py)    *)
(* and merge_fonts_preserve_a (merger.py).                                 *)
(*                                                                         *)
(* A font is the part of a fontTools TTFont the two programs touch:        *)
(*   tables     font["cmap"].tables, a list of subtables                   *)
(*              (platformID, platEncID, format, cmap: code -> glyph name)  *)
(*   glyf       font["glyf"], glyph name -> glyph                          *)
(*   hmtx       font["hmtx"].metrics, glyph name -> (advance, lsb)         *)
(*   numGlyphs  font["maxp"].numGlyphs                                     *)
(* A glyph is its outline (an opaque identity, different for every glyph   *)
(* of every font file) and its list of component glyph names (empty for a  *)
(* simple glyph).  Dictionaries are functions; "k in d" is k \in DOMAIN d. *)
(***************************************************************************)
EXTENDS Integers, Sequences, FiniteSets, TLC

VARIABLES
    pc,              \* position of the running program
    required_chars,  \* build_minimal_font argument: set of code points
    fonts_priority,  \* build_minimal_font argument: list of font paths
    merged_font,     \* the destination TTFont (loaded from the base path)
    loaded,          \* number of entries of fonts_priority put in font_cache
    copied_glyphs,   \* set of glyph names already brought into merged_font
    missing_chars,   \* list of code points found in no font
    todo,            \* rest of "for ch in sorted(required_chars)"
    char_code,       \* the code point being resolved (0: none yet)
    fidx,            \* position of "for fpath in fonts_priority"
    glyph_name,      \* result of font_supports_char for (fidx, char_code)
    stack,           \* call stack of copy_glyph_and_dependencies
    writes,          \* glyph name -> number of "glyf_dst[name] = ..." so far
    output,          \* the output file: <<>> until saved, then <<font>>
    merge_args,      \* merger.py: paths <<A, B, C>> of the chained merge
    round,           \* merger.py: 1 = merge(A, B), 2 = merge(output, C)
    font_a,          \* merger.py: the primary TTFont being mutated
    font_b,          \* merger.py: the secondary TTFont
    items_left,      \* merger.py: codes of cmap_b.items() not yet visited
    first_out,       \* merger.py: the font saved by the first merge
    cmap_start,      \* wide-map calls: the font before the first call
    cmap_font,       \* wide-map calls: the font the calls are made on
    cmap_calls       \* wide-map calls: the calls made so far, in order

vars == <<pc, required_chars, fonts_priority, merged_font, loaded,
          copied_glyphs, missing_chars, todo, char_code, fidx, glyph_name,
          stack, writes, output, merge_args, round, font_a, font_b,
          items_left, first_out, cmap_start, cmap_font, cmap_calls>>

build_vars == <<required_chars, fonts_priority, merged_font, loaded,
                copied_glyphs, missing_chars, todo, char_code, fidx,
                glyph_name, stack, writes>>

merge_vars == <<merge_args, round, font_a, font_b, items_left, first_out>>

cmap_vars == <<cmap_start, cmap_font, cmap_calls>>

----------------------------------------------------------------------------
(* Bounds of the model. *)

\* required_chars is drawn from the code points 1..MaxCode
MaxCode == 3

\* fonts_priority is drawn from the lists of at most MaxFonts paths
MaxFonts == 2

\* a sequence of wide-map calls on one font has at most MaxCalls calls
MaxCalls == 3

----------------------------------------------------------------------------
(* Dictionaries. *)

None == "None"

EmptyDict == [k \in {} |-> None]

\* d[k] = v
Put(d, k, v) == [x \in DOMAIN d \cup {k} |-> IF x = k THEN v ELSE d[x]]

\* d.get(k, None)
Get(d, k) == IF k \in DOMAIN d THEN d[k] ELSE None

\* d[k] as a zero- or one-element list, so that absence compares with presence
At(d, k) == IF k \in DOMAIN d THEN <<d[k]>> ELSE <<>>

\* sorted(S) for a set of integers
RECURSIVE Sorted(_)
Sorted(S) ==
    IF S = {} THEN <<>>
    ELSE LET m == CHOOSE x \in S : \A y \in S : x <= y
         IN  <<m>> \o Sorted(S \ {m})

----------------------------------------------------------------------------
(* Font files on disk. *)

Subtable(p, e, f, m) ==
    [platformID |-> p, platEncID |-> e, format |-> f, cmap |-> m]

Simple(o) == [outline |-> o, components |-> <<>>]

Composite(o, comps) == [outline |-> o, components |-> comps]

\* glyph.isComposite()
isComposite(g) == g.components # <<>>

\* The state of a TTFont variable before anything is loaded into it
NullFont ==
    [tables |-> <<>>, glyf |-> EmptyDict, hmtx |-> EmptyDict, numGlyphs |-> 0]

\* A Latin font.  Its first subtable (platform 0) is not its best subtable
\* (platform 3); "b" is a composite of "a" and "acc".
BaseTtf ==
    [tables |-> << Subtable(0, 3, 4, (1 :> "a") @@ (2 :> "b")),
                   Subtable(3, 1, 4, (1 :> "a") @@ (2 :> "b")) >>,
     glyf |-> (".notdef" :> Simple("base:.notdef")) @@
              ("a" :> Simple("base:a")) @@
              ("b" :> Composite("base:b", <<"a", "acc">>)) @@
              ("acc" :> Simple("base:acc")),
     hmtx |-> (".notdef" :> <<600, 0>>) @@ ("a" :> <<510, 10>>) @@
              ("b" :> <<520, 20>>) @@ ("acc" :> <<0, 30>>),
     numGlyphs |-> 4]

\* A font with a wide (3, 10, 12) subtable.  It uses the glyph name "a" for
\* a glyph of its own; "a" and "c" are composites that reference each other
\* and "a" references itself; "c" has no metrics; all reserved glyphs exist.
CjkTtf ==
    [tables |-> << Subtable(3, 10, 12, (2 :> "a") @@ (3 :> "c")) >>,
     glyf |-> (".notdef" :> Simple("cjk:.notdef")) @@
              (".null" :> Simple("cjk:.null")) @@
              ("nonmarkingreturn" :> Simple("cjk:nonmarkingreturn")) @@
              ("a" :> Composite("cjk:a", <<"c", "a">>)) @@
              ("c" :> Composite("cjk:c", <<"a">>)),
     hmtx |-> (".notdef" :> <<1000, 0>>) @@ (".null" :> <<0, 0>>) @@
              ("nonmarkingreturn" :> <<0, 0>>) @@ ("a" :> <<1000, 40>>),
     numGlyphs |-> 5]

\* An inconsistent font: its character map names "ghost", which its outline
\* table lacks, and its composite "d" names the component "gone", which its
\* outline table lacks too; "e" is shared by "d" and "f".
BrokenTtf ==
    [tables |-> << Subtable(3, 1, 4, (1 :> "ghost") @@ (3 :> "d")) >>,
     glyf |-> (".notdef" :> Simple("broken:.notdef")) @@
              ("d" :> Composite("broken:d", <<"e", "f", "gone">>)) @@
              ("e" :> Simple("broken:e")) @@
              ("f" :> Composite("broken:f", <<"e">>)),
     hmtx |-> (".notdef" :> <<700, 0>>) @@ ("d" :> <<530, 50>>),
     numGlyphs |-> 4]

\* A font whose wide subtable exists and is not the first subtable; the
\* first subtable maps a code point (3) that the wide one does not.  It has
\* a glyph named "ghost" and an unused glyph "y".
WideTtf ==
    [tables |-> << Subtable(0, 3, 4, (1 :> "x") @@ (3 :> "x")),
                   Subtable(3, 10, 12, (1 :> "x") @@ (2 :> "ghost")) >>,
     glyf |-> (".notdef" :> Simple("wide:.notdef")) @@
              ("x" :> Simple("wide:x")) @@
              ("ghost" :> Simple("wide:ghost")) @@
              ("y" :> Simple("wide:y")),
     hmtx |-> (".notdef" :> <<800, 0>>) @@ ("x" :> <<540, 60>>) @@
              ("ghost" :> <<550, 70>>) @@ ("y" :> <<560, 80>>),
     numGlyphs |-> 4]

\* The files that exist
Disk ==
    ("base.ttf" :> BaseTtf) @@ ("cjk.ttf" :> CjkTtf) @@
    ("broken.ttf" :> BrokenTtf) @@ ("wide.ttf" :> WideTtf)

\* The paths a caller may pass; "nofile.ttf" does not exist
Paths == DOMAIN Disk \cup {"nofile.ttf"}

\* os.path.isfile(path)
isfile(path) == path \in DOMAIN Disk

\* TTFont(path)
TTFont(path) == Disk[path]

Codes == 1..MaxCode

\* Every glyph name of every file, and the names only referenced
GlyphNames ==
    UNION {DOMAIN Disk[p].glyf : p \in DOMAIN Disk} \cup
    {".null", "nonmarkingreturn", "ghost", "gone"}

\* The lists of at most n paths
RECURSIVE PathLists(_)
PathLists(n) ==
    IF n = 0 THEN {<<>>}
    ELSE LET shorter == PathLists(n - 1)
         IN  shorter \cup {Append(l, p) : l \in shorter, p \in Paths}

----------------------------------------------------------------------------
(* The font-table library, as far as the two programs use it. *)

\* fontTools: the (platformID, platEncID) pairs getBestCmap tries, in order
cmapPreferences ==
    << <<3, 10>>, <<0, 6>>, <<0, 4>>, <<3, 1>>, <<0, 3>>, <<0, 2>>, <<0, 1>>,
       <<0, 0>> >>

\* cmap.getcmap(p, e): the first subtable with that platform and encoding,
\* as its position in tables (0: there is none)
getcmap(tables, p, e) ==
    LET hits == {i \in 1..Len(tables) :
                    tables[i].platformID = p /\ tables[i].platEncID = e}
    IN  IF hits = {} THEN 0 ELSE CHOOSE i \in hits : \A j \in hits : i <= j

\* cmap.getBestCmap(): the cmap dictionary of the first preference that has
\* a subtable.  The dictionary is the subtable's own (no copy is made), so it
\* is returned as the subtable's position in tables (0: None).
getBestCmap(tables) ==
    LET found == {k \in 1..Len(cmapPreferences) :
                    getcmap(tables, cmapPreferences[k][1],
                            cmapPreferences[k][2]) # 0}
    IN  IF found = {} THEN 0
        ELSE LET k == CHOOSE x \in found : \A y \in found : x <= y
             IN  getcmap(tables, cmapPreferences[k][1], cmapPreferences[k][2])

\* The dictionary getBestCmap returns (every font file here has one)
BestCmap(font) == font.tables[getBestCmap(font.tables)].cmap

\* font_supports_char: the glyph name of char_code in the best character
\* map, else None
font_supports_char(ttfont, code) == Get(BestCmap(ttfont), code)

----------------------------------------------------------------------------
(* font_gen.py: copy_glyph_and_dependencies, as a call stack.  A frame is  *)
(* [glyph_name, next]: next = 0 before the body has run, and k >= 1 when   *)
(* the loop over glyph_obj.components is about to visit component k.       *)

\* hmtx_dst[glyph_name] = (500, 0)
FallbackMetrics == <<500, 0>>

\* lines 100-110: copy the outline and the metrics of one glyph
CopyOutlineAndMetrics(dst, src, name) ==
    [dst EXCEPT
        !.glyf = Put(@, name, src.glyf[name]),
        !.hmtx = Put(@, name, IF name \in DOMAIN src.hmtx
                              THEN src.hmtx[name]
                              ELSE FallbackMetrics)]

\* a copy that never consults copied_glyphs
AlreadyCopied_Never(name, copied) == FALSE

\* line 91: "if glyph_name in copied_glyphs: return"
AlreadyCopied(name, copied) == name \in copied

\* one step of the call on top of the stack; source_font is the font the
\* outer loop is at
copy_glyph_and_dependencies ==
    /\ pc = "copy"
    /\ stack # <<>>
    /\ LET top == stack[Len(stack)]
           rest == SubSeq(stack, 1, Len(stack) - 1)
           name == top.glyph_name
           source_font == TTFont(fonts_priority[fidx])
       IN  IF top.next = 0
           THEN IF AlreadyCopied(name, copied_glyphs)
                   \/ name \notin DOMAIN source_font.glyf
                THEN \* lines 91-98: return
                     /\ stack' = rest
                     /\ UNCHANGED <<merged_font, copied_glyphs, writes>>
                ELSE \* lines 100-116
                     /\ merged_font' =
                           CopyOutlineAndMetrics(merged_font, source_font, name)
                     /\ writes' = [writes EXCEPT ![name] = @ + 1]
                     /\ copied_glyphs' = copied_glyphs \cup {name}
                     /\ stack' =
                           IF isComposite(source_font.glyf[name])
                           THEN Append(rest, [top EXCEPT !.next = 1])
                           ELSE rest
           ELSE \* lines 117-119
                LET comps == source_font.glyf[name].components
                IN  /\ stack' =
                          IF top.next > Len(comps)
                          THEN rest
                          ELSE rest \o << [top EXCEPT !.next = @ + 1],
                                          [glyph_name |-> comps[top.next],
                                           next |-> 0] >>
                    /\ UNCHANGED <<merged_font, copied_glyphs, writes>>
    /\ UNCHANGED <<pc, required_chars, fonts_priority, loaded, missing_chars,
                   todo, char_code, fidx, glyph_name, output>>
    /\ UNCHANGED merge_vars
    /\ UNCHANGED cmap_vars

----------------------------------------------------------------------------
(* font_gen.py: get_or_create_cmap12 and add_char_to_cmap. *)

IsCmap12(subtable) ==
    /\ subtable.platformID = 3
    /\ subtable.platEncID = 10
    /\ subtable.format = 12

\* the position of the first format-12 (3, 10) subtable, 0 if there is none
FindCmap12(tables) ==
    LET hits == {i \in 1..Len(tables) : IsCmap12(tables[i])}
    IN  IF hits = {} THEN 0 ELSE CHOOSE i \in hits : \A j \in hits : i <= j

\* a lookup that never finds the existing subtable: a new one is appended
\* on every call
get_or_create_cmap12_AlwaysNew(ttfont) ==
    [ttfont EXCEPT !.tables = Append(@, Subtable(3, 10, 12, EmptyDict))]

\* get_or_create_cmap12: the font with a wide subtable (a new, empty one is
\* appended when none is found); the subtable returned is FindCmap12 of the
\* result
get_or_create_cmap12(ttfont) ==
    IF FindCmap12(ttfont.tables) # 0 THEN ttfont
    ELSE [ttfont EXCEPT
             !.tables = Append(@, Subtable(3, 10, 12, EmptyDict))]

\* add_char_to_cmap
add_char_to_cmap(ttfont, code, name) ==
    LET f == get_or_create_cmap12(ttfont)
        i == FindCmap12(f.tables)
    IN  [f EXCEPT !.tables[i].cmap = Put(@, code, name)]

----------------------------------------------------------------------------
(* font_gen.py: build_minimal_font, one action per step of its body. *)

\* lines 155-167: the priority list is checked and the base font is loaded
\* as the destination
CheckPriorityAndLoadBase ==
    /\ pc = "start"
    /\ IF fonts_priority = <<>>
       THEN \* ValueError
            /\ pc' = "error"
            /\ UNCHANGED merged_font
       ELSE IF ~isfile(fonts_priority[1])
       THEN \* FileNotFoundError
            /\ pc' = "error"
            /\ UNCHANGED merged_font
       ELSE /\ merged_font' = TTFont(fonts_priority[1])
            /\ pc' = "load"
    /\ UNCHANGED <<required_chars, fonts_priority, loaded, copied_glyphs,
                   missing_chars, todo, char_code, fidx, glyph_name, stack,
                   writes, output>>
    /\ UNCHANGED merge_vars
    /\ UNCHANGED cmap_vars

\* a cache loop that does not check that the path is a file
LoadFontCache_NoCheck ==
    /\ pc = "load"
    /\ loaded < Len(fonts_priority)
    /\ loaded' = loaded + 1
    /\ UNCHANGED <<pc, required_chars, fonts_priority, merged_font,
                   copied_glyphs, missing_chars, todo, char_code, fidx,
                   glyph_name, stack, writes, output>>
    /\ UNCHANGED merge_vars
    /\ UNCHANGED cmap_vars

\* lines 171-174: one pass of "for fpath in fonts_priority" filling font_cache
LoadFontCache ==
    /\ pc = "load"
    /\ loaded < Len(fonts_priority)
    /\ IF ~isfile(fonts_priority[loaded + 1])
       THEN \* FileNotFoundError
            /\ pc' = "error"
            /\ UNCHANGED loaded
       ELSE /\ loaded' = loaded + 1
            /\ UNCHANGED pc
    /\ UNCHANGED <<required_chars, fonts_priority, merged_font, copied_glyphs,
                   missing_chars, todo, char_code, fidx, glyph_name, stack,
                   writes, output>>
    /\ UNCHANGED merge_vars
    /\ UNCHANGED cmap_vars

\* lines 176-180: copied_glyphs = set(), missing_chars = [], and the loop
\* over sorted(required_chars) is entered
BeginChars ==
    /\ pc = "load"
    /\ loaded = Len(fonts_priority)
    /\ copied_glyphs' = {}
    /\ missing_chars' = <<>>
    /\ todo' = Sorted(required_chars)
    /\ pc' = "char"
    /\ UNCHANGED <<required_chars, fonts_priority, merged_font, loaded,
                   char_code, fidx, glyph_name, stack, writes, output>>
    /\ UNCHANGED merge_vars
    /\ UNCHANGED cmap_vars

\* lines 180-183: the next character, or the end of the loop
NextChar ==
    /\ pc = "char"
    /\ IF todo = <<>>
       THEN /\ pc' = "prune"
            /\ UNCHANGED <<todo, char_code, fidx>>
       ELSE /\ char_code' = Head(todo)
            /\ todo' = Tail(todo)
            /\ fidx' = 1
            /\ pc' = "scan"
    /\ UNCHANGED <<required_chars, fonts_priority, merged_font, loaded,
                   copied_glyphs, missing_chars, glyph_name, stack, writes,
                   output>>
    /\ UNCHANGED merge_vars
    /\ UNCHANGED cmap_vars

\* lines 201-202: "if not found: missing_chars.append(ch)"
AppendMissing(missing, code) == Append(missing, code)

\* lines 183-188 and 201-202: one pass of "for fpath in fonts_priority"
ScanFont ==
    /\ pc = "scan"
    /\ IF fidx > Len(fonts_priority)
       THEN /\ missing_chars' = AppendMissing(missing_chars, char_code)
            /\ pc' = "char"
            /\ UNCHANGED <<fidx, glyph_name, stack>>
       ELSE LET name == font_supports_char(TTFont(fonts_priority[fidx]),
                                           char_code)
            IN  IF name # None
                THEN /\ glyph_name' = name
                     /\ stack' = << [glyph_name |-> name, next |-> 0] >>
                     /\ pc' = "copy"
                     /\ UNCHANGED <<fidx, missing_chars>>
                ELSE /\ fidx' = fidx + 1
                     /\ UNCHANGED <<pc, glyph_name, stack, missing_chars>>
    /\ UNCHANGED <<required_chars, fonts_priority, merged_font, loaded,
                   copied_glyphs, todo, char_code, writes, output>>
    /\ UNCHANGED merge_vars
    /\ UNCHANGED cmap_vars

\* lines 188-200: the copy has returned; the character is added to the wide
\* map and the scan of the fonts ends ("found = True; break")
AddToCmap ==
    /\ pc = "copy"
    /\ stack = <<>>
    /\ merged_font' = add_char_to_cmap(merged_font, char_code, glyph_name)
    /\ pc' = "char"
    /\ UNCHANGED <<required_chars, fonts_priority, loaded, copied_glyphs,
                   missing_chars, todo, char_code, fidx, glyph_name, stack,
                   writes, output>>
    /\ UNCHANGED merge_vars
    /\ UNCHANGED cmap_vars

\* line 220
ReservedGlyphs == {".notdef", ".null", "nonmarkingreturn"}

\* a pruning loop without the exception for the reserved glyphs
Unused_NoReserved(font, copied) ==
    {g \in DOMAIN font.glyf : g \notin copied}

\* line 220: the glyphs the pruning loop deletes
Unused(font, copied) ==
    {g \in DOMAIN font.glyf : g \notin copied /\ g \notin ReservedGlyphs}

\* lines 217-223: every unused glyph is deleted from glyf, and from hmtx
\* when it is there
PruneFont(font, copied) ==
    LET gone == Unused(font, copied)
    IN  [font EXCEPT
            !.glyf = [g \in DOMAIN @ \ gone |-> @[g]],
            !.hmtx = [g \in DOMAIN @ \ gone |-> @[g]]]

Prune ==
    /\ pc = "prune"
    /\ merged_font' = PruneFont(merged_font, copied_glyphs)
    /\ pc' = "maxp"
    /\ UNCHANGED <<required_chars, fonts_priority, loaded, copied_glyphs,
                   missing_chars, todo, char_code, fidx, glyph_name, stack,
                   writes, output>>
    /\ UNCHANGED merge_vars
    /\ UNCHANGED cmap_vars

\* numGlyphs left as it was loaded
UpdateNumGlyphs_Stale(font) == font

\* line 226: maxp.numGlyphs = len(glyf.keys())
UpdateNumGlyphs(font) ==
    [font EXCEPT !.numGlyphs = Cardinality(DOMAIN font.glyf)]

UpdateMaxp ==
    /\ pc = "maxp"
    /\ merged_font' = UpdateNumGlyphs(merged_font)
    /\ pc' = "save"
    /\ UNCHANGED <<required_chars, fonts_priority, loaded, copied_glyphs,
                   missing_chars, todo, char_code, fidx, glyph_name, stack,
                   writes, output>>
    /\ UNCHANGED merge_vars
    /\ UNCHANGED cmap_vars

\* line 229: merged_font.save(output_ttf_path)
Save ==
    /\ pc = "save"
    /\ output' = <<merged_font>>
    /\ pc' = "done"
    /\ UNCHANGED build_vars
    /\ UNCHANGED merge_vars
    /\ UNCHANGED cmap_vars

build_minimal_font ==
    \/ CheckPriorityAndLoadBase
    \/ LoadFontCache
    \/ BeginChars
    \/ NextChar
    \/ ScanFont
    \/ copy_glyph_and_dependencies
    \/ AddToCmap
    \/ Prune
    \/ UpdateMaxp
    \/ Save

----------------------------------------------------------------------------
(* merger.py: merge_fonts_preserve_a, run twice as in __main__:            *)
(* merge(A, B) saved to the output, then merge(output, C).                 *)

\* lines 14-23: both fonts are loaded; cmap_a and cmap_b are the best
\* dictionaries of the two fonts (cmap_a stays the live dictionary of
\* font_a's best subtable)
MergeLoad ==
    /\ pc = "m_load"
    /\ font_a' = IF round = 1 THEN TTFont(merge_args[1]) ELSE output[1]
    /\ font_b' = TTFont(merge_args[round + 1])
    /\ items_left' = DOMAIN BestCmap(font_b')
    /\ pc' = "m_loop"
    /\ UNCHANGED <<merge_args, round, first_out, output>>
    /\ UNCHANGED build_vars
    /\ UNCHANGED cmap_vars

\* line 27: "char_code not in cmap_a"
InCmapA(font, code) == code \in DOMAIN BestCmap(font)

\* the glyph of B is stored whether or not font A has a glyph of that name
AddGlyphFromB_Overwrite(a, b, name) ==
    [a EXCEPT !.glyf = Put(@, name, b.glyf[name]),
              !.hmtx = Put(@, name, FallbackMetrics)]

\* lines 34-38: the glyph is added under its name when font A has no glyph
\* of that name
AddGlyphFromB(a, b, name) ==
    IF name \notin DOMAIN a.glyf
    THEN [a EXCEPT !.glyf = Put(@, name, b.glyf[name]),
                   !.hmtx = Put(@, name, FallbackMetrics)]
    ELSE a

\* lines 27-43: the body of the loop for one item of cmap_b
MergeItem(a, b, code) ==
    LET glyph_name_b == BestCmap(b)[code]
    IN  IF ~InCmapA(a, code)
        THEN IF glyph_name_b \in DOMAIN b.glyf
             THEN AddGlyphFromB(
                      [a EXCEPT !.tables[1].cmap = Put(@, code, glyph_name_b)],
                      b, glyph_name_b)
             ELSE a
        ELSE a

\* line 26: one pass of "for char_code, glyph_name_b in cmap_b.items()"
MergeStep ==
    /\ pc = "m_loop"
    /\ \E code \in items_left :
          /\ font_a' = MergeItem(font_a, font_b, code)
          /\ items_left' = items_left \ {code}
    /\ UNCHANGED <<pc, merge_args, round, font_b, first_out, output>>
    /\ UNCHANGED build_vars
    /\ UNCHANGED cmap_vars

\* lines 46-49: numGlyphs is recomputed and the font is saved; __main__
\* then merges the third font into the saved output
MergeSave ==
    /\ pc = "m_loop"
    /\ items_left = {}
    /\ font_a' = UpdateNumGlyphs(font_a)
    /\ output' = <<font_a'>>
    /\ IF round = 1
       THEN /\ first_out' = font_a'
            /\ round' = 2
            /\ pc' = "m_load"
       ELSE /\ pc' = "m_done"
            /\ UNCHANGED <<first_out, round>>
    /\ UNCHANGED <<merge_args, font_b, items_left>>
    /\ UNCHANGED build_vars
    /\ UNCHANGED cmap_vars

merge_fonts_preserve_a ==
    \/ MergeLoad
    \/ MergeStep
    \/ MergeSave

----------------------------------------------------------------------------
(* The specification. *)

InitCommon ==
    /\ merged_font = NullFont
    /\ loaded = 0
    /\ copied_glyphs = {}
    /\ missing_chars = <<>>
    /\ todo = <<>>
    /\ char_code = 0
    /\ fidx = 0
    /\ glyph_name = None
    /\ stack = <<>>
    /\ writes = [g \in GlyphNames |-> 0]
    /\ output = <<>>
    /\ round = 1
    /\ font_a = NullFont
    /\ font_b = NullFont
    /\ items_left = {}
    /\ first_out = NullFont

\* no wide-map call sequence is under way
InitNoCalls ==
    /\ cmap_start = NullFont
    /\ cmap_font = NullFont
    /\ cmap_calls = <<>>

\* a run of font_gen.py
InitBuild ==
    /\ pc = "start"
    /\ required_chars \in SUBSET Codes
    /\ fonts_priority \in PathLists(MaxFonts)
    /\ merge_args = <<>>
    /\ InitCommon
    /\ InitNoCalls

\* a run of merger.py
InitMerge ==
    /\ pc = "m_load"
    /\ required_chars = {}
    /\ fonts_priority = <<>>
    /\ merge_args \in (DOMAIN Disk) \X (DOMAIN Disk) \X (DOMAIN Disk)
    /\ InitCommon
    /\ InitNoCalls

Init == InitBuild \/ InitMerge

Next == build_minimal_font \/ merge_fonts_preserve_a

Spec == Init /\ [][Next]_vars

\* the program is single-threaded and runs to its end
FairSpec == Spec /\ WF_vars(Next)

----------------------------------------------------------------------------
(* font_gen.py: get_or_create_cmap12 and add_char_to_cmap, called in any   *)
(* order on one font.  A call is recorded as [code, name, at]: the         *)
(* arguments of add_char_to_cmap (code 0 for a bare get_or_create_cmap12)  *)
(* and the position of the subtable the call returned or wrote to.         *)

\* the glyph names the calls insert
InsertNames == {"a", "b"}

\* get_or_create_cmap12(ttfont)
CallGetOrCreate ==
    /\ pc = "cmap"
    /\ Len(cmap_calls) < MaxCalls
    /\ cmap_font' = get_or_create_cmap12(cmap_font)
    /\ cmap_calls' = Append(cmap_calls,
                            [code |-> 0, name |-> None,
                             at |-> FindCmap12(cmap_font'.tables)])
    /\ UNCHANGED <<pc, cmap_start, output>>
    /\ UNCHANGED build_vars
    /\ UNCHANGED merge_vars

\* add_char_to_cmap(ttfont, char_code, glyph_name)
CallAddChar ==
    /\ pc = "cmap"
    /\ Len(cmap_calls) < MaxCalls
    /\ \E code \in Codes, name \in InsertNames :
          /\ cmap_font' = add_char_to_cmap(cmap_font, code, name)
          /\ cmap_calls' = Append(cmap_calls,
                                  [code |-> code, name |-> name,
                                   at |-> FindCmap12(cmap_font'.tables)])
    /\ UNCHANGED <<pc, cmap_start, output>>
    /\ UNCHANGED build_vars
    /\ UNCHANGED merge_vars

\* the calls start on a font as loaded from a file; each file has no wide
\* subtable or one
InitCalls ==
    /\ pc = "cmap"
    /\ required_chars = {}
    /\ fonts_priority = <<>>
    /\ merge_args = <<>>
    /\ InitCommon
    /\ cmap_start \in {TTFont(p) : p \in DOMAIN Disk}
    /\ cmap_font = cmap_start
    /\ cmap_calls = <<>>

NextCalls == CallGetOrCreate \/ CallAddChar

CmapSpec == InitCalls /\ [][NextCalls]_vars

----------------------------------------------------------------------------
(* Vocabulary of the properties. *)

Range(seq) == {seq[i] : i \in 1..Len(seq)}

\* a run of font_gen.py, and its saved font
IsBuild == merge_args = <<>>

Assembled == IsBuild /\ pc = "done"

\* the positions of fonts_priority whose font supports the code point
Supporting(code) ==
    {i \in 1..Len(fonts_priority) :
        font_supports_char(TTFont(fonts_priority[i]), code) # None}

\* the font that wins the code point: the earliest supporting one
Winner(code) ==
    TTFont(fonts_priority[CHOOSE i \in Supporting(code) :
                             \A j \in Supporting(code) : i <= j])

\* the wide (3, 10, 12) character map of a font, empty if it has none
WideMap(font) ==
    IF FindCmap12(font.tables) = 0 THEN EmptyDict
    ELSE font.tables[FindCmap12(font.tables)].cmap

\* the glyph names reachable from the names S through component references
RECURSIVE Reachable(_, _)
Reachable(glyf, S) ==
    LET more == S \cup UNION {Range(glyf[n].components) :
                                 n \in S \cap DOMAIN glyf}
    IN  IF more = S THEN S ELSE Reachable(glyf, more)

\* the metrics a copy of the glyph from src leaves in the destination
CopiedMetrics(src, name) ==
    IF name \in DOMAIN src.hmtx THEN src.hmtx[name] ELSE FallbackMetrics

----------------------------------------------------------------------------
(* C1 *)

\* C1 (as claimed): in the assembled font every required code point that
\* some source supports is in the wide character map, the glyph it maps to
\* is in the outline table, and so is every glyph reachable from it through
\* component references -- for every priority list and every source,
\* inconsistent sources included.
C1_ResolvedCharsComplete ==
    Assembled =>
        \A code \in required_chars :
            Supporting(code) # {} =>
                LET out == output[1]
                IN  /\ code \in DOMAIN WideMap(out)
                    /\ Reachable(out.glyf, {WideMap(out)[code]})
                          \subseteq DOMAIN out.glyf

----------------------------------------------------------------------------
(* C2 *)

\* C2 (as claimed): when two or more sources support a required code point,
\* the glyph the assembled font holds under the name mapped to that code
\* point is the glyph (outline and metrics) of the earliest of them.  Stated
\* for winners that hold the named glyph, so that a violation is a matter of
\* priority alone.
C2_PriorityCorrect ==
    Assembled =>
        \A code \in required_chars :
            LET out == output[1]
                name == font_supports_char(Winner(code), code)
            IN  (/\ Cardinality(Supporting(code)) >= 2
                 /\ name \in DOMAIN Winner(code).glyf)
                => /\ Get(WideMap(out), code) = name
                   /\ At(out.glyf, name) = At(Winner(code).glyf, name)
                   /\ At(out.hmtx, name) = <<CopiedMetrics(Winner(code), name)>>

----------------------------------------------------------------------------
(* C3 *)

\* the merges that have been saved so far, each as
\* <<primary as loaded, secondary, merged font as saved>>
SavedMerges ==
    (IF ~IsBuild /\ (round = 2 \/ pc = "m_done")
     THEN {<<TTFont(merge_args[1]), TTFont(merge_args[2]), first_out>>}
     ELSE {}) \cup
    (IF ~IsBuild /\ pc = "m_done"
     THEN {<<first_out, TTFont(merge_args[3]), output[1]>>}
     ELSE {})

\* the characters both fonts map
MappedInBoth(a, b) == DOMAIN BestCmap(a) \cap DOMAIN BestCmap(b)

----------------------------------------------------------------------------
(* C4 *)

\* C4: whenever a font has been saved, by build_minimal_font or by
\* merge_fonts_preserve_a, its numGlyphs equals the number of glyph names in
\* its outline table.
C4_GlyphCount ==
    output # <<>> =>
        output[1].numGlyphs = Cardinality(DOMAIN output[1].glyf)

\* C4 witness: an assembled font whose glyph count differs from the count
\* the base font was loaded with
C4_Witness ==
    /\ Assembled
    /\ output[1].numGlyphs # TTFont(fonts_priority[1]).numGlyphs

----------------------------------------------------------------------------
(* C5 *)

\* the glyph names the font's character-map subtables and composites name
Referenced(font) ==
    UNION {{font.tables[i].cmap[c] : c \in DOMAIN font.tables[i].cmap} :
              i \in 1..Len(font.tables)}
    \cup UNION {Range(font.glyf[g].components) : g \in DOMAIN font.glyf}

\* C5 (as claimed): in the assembled font every glyph name that an entry of
\* any character-map subtable or a composite component names is in the
\* outline table.
C5_CrossTableConsistent ==
    Assembled => Referenced(output[1]) \subseteq DOMAIN output[1].glyf

----------------------------------------------------------------------------
(* C6 *)

\* the glyphs pruning removed from the base font
Pruned == DOMAIN TTFont(fonts_priority[1]).glyf \ DOMAIN output[1].glyf

\* C6 (as claimed): the assembled outline table is exactly the copied-glyph
\* set plus the three reserved glyphs, the reserved glyphs being there in
\* every case, and the metrics table has no entry for a pruned glyph.
C6_ExactGlyphSetStrict ==
    Assembled =>
        /\ DOMAIN output[1].glyf = copied_glyphs \cup ReservedGlyphs
        /\ Pruned \cap DOMAIN output[1].hmtx = {}

\* C6 (amended): the assembled outline table is exactly the copied-glyph
\* set plus those reserved glyphs that the base font has, and the metrics
\* table has no entry for a pruned glyph.
C6_ExactGlyphSet ==
    Assembled =>
        /\ DOMAIN output[1].glyf =
              copied_glyphs \cup
              (ReservedGlyphs \cap DOMAIN TTFont(fonts_priority[1]).glyf)
        /\ Pruned \cap DOMAIN output[1].hmtx = {}

\* C6 witness: an assembled font that holds a copied glyph and a reserved
\* glyph no character uses, and from which a glyph was pruned
C6_Witness ==
    /\ Assembled
    /\ copied_glyphs # {}
    /\ (ReservedGlyphs \cap DOMAIN output[1].glyf) \ copied_glyphs # {}
    /\ Pruned # {}

----------------------------------------------------------------------------
(* C7 *)

\* the required code points no source supports
Unsupported == {code \in required_chars : Supporting(code) = {}}

\* the code points some character-map subtable of the font has an entry for
Mapped(font) ==
    UNION {DOMAIN font.tables[i].cmap : i \in 1..Len(font.tables)}

\* C7 (as claimed): the assembly is saved with the unresolved list holding
\* exactly the required code points no source supports, ascending and once
\* each, and the output's character map has no entry for any of them.
C7_UnresolvedReported ==
    Assembled =>
        /\ missing_chars = Sorted(Unsupported)
        /\ Unsupported \cap Mapped(output[1]) = {}

----------------------------------------------------------------------------
(* C8 *)

\* the priority list is empty or names a path that is not a file
FatalConfiguration ==
    \/ fonts_priority = <<>>
    \/ \E i \in 1..Len(fonts_priority) : ~isfile(fonts_priority[i])

\* no character has been taken from sorted(required_chars) and the
\* destination is as it was loaded
NoCharProcessed ==
    /\ char_code = 0
    /\ copied_glyphs = {}
    /\ missing_chars = <<>>
    /\ \/ merged_font = NullFont
       \/ /\ fonts_priority # <<>>
          /\ isfile(fonts_priority[1])
          /\ merged_font = TTFont(fonts_priority[1])

\* C8: with an empty priority list or a listed path that does not exist,
\* build_minimal_font never gets past loading, processes no character, never
\* writes the output and ends in the error; and the output is written only
\* after every listed font was loaded and every required character was
\* either mapped or reported missing.
C8_FatalWritesNothing ==
    IsBuild =>
        /\ FatalConfiguration =>
              /\ pc \in {"start", "load", "error"}
              /\ NoCharProcessed
              /\ output = <<>>
              /\ ~ENABLED Next => pc = "error"
        /\ output # <<>> =>
              /\ loaded = Len(fonts_priority)
              /\ todo = <<>>
              /\ required_chars =
                    Range(missing_chars) \cup
                    {code \in required_chars :
                        code \in DOMAIN WideMap(output[1])}

\* C8 witness: the run has failed on a later entry of the priority list,
\* after the base font was loaded, with characters waiting
C8_Witness ==
    /\ IsBuild
    /\ pc = "error"
    /\ required_chars # {}
    /\ Len(fonts_priority) >= 2
    /\ isfile(fonts_priority[1])
    /\ merged_font # NullFont

----------------------------------------------------------------------------
(* C9 *)

\* the glyph name a merged font gives a character: the best character map
\* where lookups read, else the first subtable where imports are written
MergedName(font, code) ==
    IF code \in DOMAIN BestCmap(font) THEN BestCmap(font)[code]
    ELSE Get(font.tables[1].cmap, code)

\* the characters the first merge mapped: those of A and those imported
\* from B
MappedByFirstMerge ==
    LET a == TTFont(merge_args[1])
        b == TTFont(merge_args[2])
    IN  DOMAIN BestCmap(a) \cup
        {code \in DOMAIN BestCmap(b) : BestCmap(b)[code] \in DOMAIN b.glyf}

\* C9 (as claimed): after merge(merge(A, B), C) every character the first
\* merge mapped has the glyph name the first merge gave it, and the outline
\* the first merge's output held under that name is still there.
C9_ChainedMergeKeeps ==
    (~IsBuild /\ pc = "m_done") =>
        \A code \in MappedByFirstMerge :
            LET name == MergedName(first_out, code)
            IN  /\ MergedName(output[1], code) = name
                /\ name \in DOMAIN first_out.glyf =>
                      At(output[1].glyf, name) = At(first_out.glyf, name)

----------------------------------------------------------------------------
(* C10 *)

\* no glyph name has been written into the destination outline table twice
WrittenOnce == \A g \in GlyphNames : writes[g] <= 1

\* a call for a name in the copied-glyph set returns at once and leaves the
\* destination and the set as they are
SkipIsNoOp ==
    (/\ pc = "copy"
     /\ stack # <<>>
     /\ stack[Len(stack)].next = 0
     /\ stack[Len(stack)].glyph_name \in copied_glyphs)
    => /\ stack' = SubSeq(stack, 1, Len(stack) - 1)
       /\ UNCHANGED <<merged_font, copied_glyphs, writes>>

\* C10: every call of copy_glyph_and_dependencies returns (the copy of a
\* character's glyph graph is followed by the character's entry in the
\* character map), each glyph name is written into the destination outline
\* table at most once in a run, and a call for a name already in the
\* copied-glyph set returns without touching the destination.
C10_CopyTerminatesOnce ==
    /\ []WrittenOnce
    /\ [][SkipIsNoOp]_vars
    /\ (pc = "copy") ~> (pc = "char")

\* C10 witness: the copy is inside a composite (a call waits in the loop
\* over the components) and reaches a name that is already copied
C10_Witness ==
    /\ pc = "copy"
    /\ Len(stack) >= 2
    /\ stack[Len(stack)].next = 0
    /\ stack[Len(stack)].glyph_name \in copied_glyphs

----------------------------------------------------------------------------
(* C11 *)

\* the required code points whose winning source names a glyph that its own
\* outline table lacks
Inconsistent ==
    {code \in required_chars :
        /\ Supporting(code) # {}
        /\ font_supports_char(Winner(code), code)
              \notin DOMAIN Winner(code).glyf}

\* C11 (as claimed): a required code point whose first supporting source
\* names a glyph absent from that source's outline table is handled as
\* unresolved: the assembled font's character map has no entry for it.
C11_InconsistentDemoted ==
    Assembled =>
        \A code \in Inconsistent : code \notin DOMAIN WideMap(output[1])

----------------------------------------------------------------------------
(* C12 *)

\* the positions of the wide (3, 10, 12) subtables of a font
WidePositions(font) == {i \in 1..Len(font.tables) : IsCmap12(font.tables[i])}

\* the glyph name the calls so far leave for a code point: that of the last
\* insertion for it, else what the font had at the start
Expected(code) ==
    LET ks == {k \in 1..Len(cmap_calls) : cmap_calls[k].code = code}
    IN  IF ks = {} THEN Get(WideMap(cmap_start), code)
        ELSE cmap_calls[CHOOSE k \in ks : \A j \in ks : j <= k].name

\* C12: after any sequence of get_or_create_cmap12 / add_char_to_cmap calls
\* on a font that started with no wide subtable or one, the font has exactly
\* one wide subtable (the one it had, else one appended after the others),
\* every call returned or wrote to that subtable, the wide map holds for
\* every code point the last name inserted for it (else what it held at the
\* start), and no other subtable and no other table has changed.
C12_SingleWideMap ==
    (pc = "cmap" /\ cmap_calls # <<>>) =>
        LET before == cmap_start.tables
            now == cmap_font.tables
            w == FindCmap12(now)
        IN  /\ Cardinality(WidePositions(cmap_font)) = 1
            /\ \A k \in 1..Len(cmap_calls) : cmap_calls[k].at = w
            /\ w = IF FindCmap12(before) # 0 THEN FindCmap12(before)
                   ELSE Len(before) + 1
            /\ Len(now) = IF FindCmap12(before) # 0 THEN Len(before)
                          ELSE Len(before) + 1
            /\ \A i \in 1..Len(before) : i # w => now[i] = before[i]
            /\ \A code \in Codes : Get(WideMap(cmap_font), code) = Expected(code)
            /\ DOMAIN WideMap(cmap_font) \subseteq
                  DOMAIN WideMap(cmap_start) \cup Codes
            /\ cmap_font.glyf = cmap_start.glyf
            /\ cmap_font.hmtx = cmap_start.hmtx
            /\ cmap_font.numGlyphs = cmap_start.numGlyphs

\* C12 witness: on a font that started without a wide subtable and with two
\* other subtables, the same code point was inserted twice with different
\* names, after a bare get_or_create_cmap12
C12_Witness ==
    /\ pc = "cmap"
    /\ FindCmap12(cmap_start.tables) = 0
    /\ Len(cmap_start.tables) = 2
    /\ Len(cmap_calls) = 3
    /\ cmap_calls[1].code = 0
    /\ cmap_calls[2].code = cmap_calls[3].code
    /\ cmap_calls[2].name # cmap_calls[3].name

----------------------------------------------------------------------------
(* C13 *)

\* the characters a merge imports: mapped in B, not in A, with B's glyph in
\* B's outline table
Imported(a, b) ==
    {code \in DOMAIN BestCmap(b) \ DOMAIN BestCmap(a) :
        BestCmap(b)[code] \in DOMAIN b.glyf}

\* C13 (as claimed): after a merge, every imported character is mapped to a
\* glyph name under which the merged font holds B's outline for that
\* character, also when A already held another glyph under that name.
C13_ImportedRendersB ==
    \A m \in SavedMerges :
        \A code \in Imported(m[1], m[2]) :
            At(m[3].glyf, MergedName(m[3], code)) =
                At(m[2].glyf, BestCmap(m[2])[code])

====
